---- MODULE Spec2Model ----
(***************************************************************************)
(* Model of setup_env.py: main() creates the fixed project tree under the  *)
(* working directory (initialize_directories) and then records the         *)
(* detected accelerator class in config/device_config.txt                  *)
(* (check_hardware_acceleration).                                          *)
(*                                                                         *)
(* The filesystem is a function from paths to nodes.  A path is the        *)
(* sequence of its components below the working directory; <<>> is the     *)
(* working directory itself.  A node has a kind (absent, dir, file), a     *)
(* permission bit w (for a directory: the process may create entries in    *)
(* it; for a file: the process may change its times and open it for        *)
(* writing), its content (a sequence of tokens) and its modification time  *)
(* (the number of the run that last wrote or touched it, 0 if none did).   *)
(*                                                                         *)
(* fs0 is the filesystem as the current run found it, returned the set of  *)
(* functions of main that have returned normally in the current run, and   *)
(* history the outcome of every earlier run: they record the past for the  *)
(* properties and no action reads them.  cuda and mps are what             *)
(* torch.cuda.is_available() and torch.backends.mps.is_available() answer  *)
(* on this machine.                                                        *)
(***************************************************************************)
EXTENDS Integers, Sequences, FiniteSets, TLC

VARIABLES fs, fs0, pc, idx, device, exitStatus, log, returned, history, cuda, mps

vars == <<fs, fs0, pc, idx, device, exitStatus, log, returned, history, cuda, mps>>

\* ------------------------------------------------------------- bounds
\* Number of entries that exist below the working directory before the
\* first run and differ from "absent" (their ancestors exist as well).
MaxPre == 1
\* Number of times main is run in a row on the same tree.
MaxRuns == 2

\* ---------------------------------------------------------- constants
PROJECT_STRUCTURE ==
    << <<"data", "raw", "images">>,
       <<"data", "raw", "text">>,
       <<"data", "processed", "embeddings">>,
       <<"data", "processed", "graph">>,
       <<"src", "encoders">>,
       <<"src", "graph">>,
       <<"src", "fusion">>,
       <<"src", "utils">>,
       <<"models", "checkpoints">>,
       <<"models", "exported">>,
       <<"logs">>,
       <<"notebooks">>,
       <<"config">> >>

\* os.getcwd(): the working directory, the root every path is relative to.
Root == <<>>

\* The relative path "config/device_config.txt" of the open() call.
DeviceConfig == <<"config", "device_config.txt">>

GitKeep == ".gitkeep"

\* ------------------------------------------------------------- paths
\* Path.__truediv__: root / folder.
Join(root, folder) == root \o folder

\* Path.parent (the root is its own parent).
Parent(p) == IF p = <<>> THEN p ELSE SubSeq(p, 1, Len(p) - 1)

Prefixes(p) == { SubSeq(p, 1, n) : n \in 0..Len(p) }

Folders == { PROJECT_STRUCTURE[i] : i \in 1..Len(PROJECT_STRUCTURE) }

\* The listed directories and their intermediate parents.
ProjectDirs == (UNION { Prefixes(Join(Root, d)) : d \in Folders }) \ {Root}

Markers == { Append(Join(Root, d), GitKeep) : d \in Folders }

\* Entries the program never names: one beside the tree, one inside it.
Unlisted == { <<"README.md">>, <<"data", "raw", "notes">> }

Paths == {Root} \cup ProjectDirs \cup Markers \cup {DeviceConfig} \cup Unlisted

\* ------------------------------------------------------------- nodes
Absent == [kind |-> "absent", w |-> FALSE, data |-> <<>>, mtime |-> 0]

NewDir(now) == [kind |-> "dir", w |-> TRUE, data |-> <<>>, mtime |-> now]

NewFile(now) == [kind |-> "file", w |-> TRUE, data |-> <<>>, mtime |-> now]

\* What an entry that exists before the first run may be.
PreValues ==
    { [kind |-> "dir",  w |-> TRUE,  data |-> <<>>,      mtime |-> 0],
      [kind |-> "dir",  w |-> FALSE, data |-> <<>>,      mtime |-> 0],
      [kind |-> "file", w |-> TRUE,  data |-> <<>>,      mtime |-> 0],
      [kind |-> "file", w |-> TRUE,  data |-> <<"old">>, mtime |-> 0],
      [kind |-> "file", w |-> FALSE, data |-> <<"old">>, mtime |-> 0] }

Exists(f, p) == f[p].kind # "absent"

IsDir(f, p) == f[p].kind = "dir"


\* ---------------------------------------------------------- syscalls
\* Results are records [err, fs]: err is "" on success and the errno name
\* of the OSError raised otherwise; fs is the filesystem afterwards.
Ok(f) == [err |-> "", fs |-> f]

Raise(e, f) == [err |-> e, fs |-> f]

\* os.mkdir(p): the errno of mkdir(2), "" when the directory was created.
OsMkdirErrno(f, p) ==
    IF p = Root THEN "EEXIST"
    ELSE IF f[Parent(p)].kind = "absent" THEN "ENOENT"
    ELSE IF f[Parent(p)].kind = "file" THEN "ENOTDIR"
    ELSE IF Exists(f, p) THEN "EEXIST"
    ELSE IF ~f[Parent(p)].w THEN "EACCES"
    ELSE ""

\* Path.mkdir without the exist_ok test of its OSError handler.
RECURSIVE PathMkdirNoExistOk(_, _, _, _, _)
PathMkdirNoExistOk(f, p, parents, exist_ok, now) ==
    LET e == OsMkdirErrno(f, p) IN
    IF e = "" THEN Ok([f EXCEPT ![p] = NewDir(now)])
    ELSE IF e = "ENOENT" THEN
        IF ~parents \/ Parent(p) = p THEN Raise(e, f)
        ELSE LET up == PathMkdirNoExistOk(f, Parent(p), TRUE, TRUE, now) IN
             IF up.err # "" THEN up
             ELSE PathMkdirNoExistOk(up.fs, p, FALSE, exist_ok, now)
    ELSE Raise(e, f)

\* Path.mkdir that never creates missing parents.
PathMkdirNoParents(f, p, parents, exist_ok, now) ==
    LET e == OsMkdirErrno(f, p) IN
    IF e = "" THEN Ok([f EXCEPT ![p] = NewDir(now)])
    ELSE IF e = "ENOENT" THEN Raise(e, f)
    ELSE IF ~exist_ok \/ ~IsDir(f, p) THEN Raise(e, f)
    ELSE Ok(f)

\* pathlib.Path.mkdir(parents, exist_ok): os.mkdir; on FileNotFoundError
\* create the parent (parents=True, exist_ok=True) and retry without
\* parents; any other OSError is swallowed only when exist_ok holds and
\* the path is a directory.
RECURSIVE PathMkdir(_, _, _, _, _)
PathMkdir(f, p, parents, exist_ok, now) ==
    LET e == OsMkdirErrno(f, p) IN
    IF e = "" THEN Ok([f EXCEPT ![p] = NewDir(now)])
    ELSE IF e = "ENOENT" THEN
        IF ~parents \/ Parent(p) = p THEN Raise(e, f)
        ELSE LET up == PathMkdir(f, Parent(p), TRUE, TRUE, now) IN
             IF up.err # "" THEN up
             ELSE PathMkdir(up.fs, p, FALSE, exist_ok, now)
    ELSE IF ~exist_ok \/ ~IsDir(f, p) THEN Raise(e, f)
    ELSE Ok(f)

\* os.open(p, flags) for writing: the errno of open(2) with O_WRONLY and,
\* when creat holds, O_CREAT.
OsOpenErrno(f, p, creat) ==
    IF f[Parent(p)].kind = "absent" THEN "ENOENT"
    ELSE IF f[Parent(p)].kind = "file" THEN "ENOTDIR"
    ELSE IF f[p].kind = "dir" THEN "EISDIR"
    ELSE IF f[p].kind = "file" THEN (IF f[p].w THEN "" ELSE "EACCES")
    ELSE IF ~creat THEN "ENOENT"
    ELSE IF ~f[Parent(p)].w THEN "EACCES"
    ELSE ""

\* os.utime(p, None): the errno of utimensat(2).
OsUtimeErrno(f, p) ==
    IF f[Parent(p)].kind = "file" THEN "ENOTDIR"
    ELSE IF ~Exists(f, p) THEN "ENOENT"
    ELSE IF ~f[p].w THEN "EACCES"
    ELSE ""

\* A touch that empties the file it touches (open with O_TRUNC).
PathTouchTruncating(f, p, now) ==
    LET e == OsOpenErrno(f, p, TRUE) IN
    IF e # "" THEN Raise(e, f) ELSE Ok([f EXCEPT ![p] = NewFile(now)])

\* pathlib.Path.touch(exist_ok=True): first os.utime, which only bumps
\* the modification time of whatever is there; when that raises,
\* os.open(O_CREAT | O_WRONLY) and close, which creates an empty file and
\* leaves an existing one as it is.
PathTouch(f, p, now) ==
    IF OsUtimeErrno(f, p) = "" THEN Ok([f EXCEPT ![p].mtime = now])
    ELSE LET e == OsOpenErrno(f, p, TRUE) IN
         IF e # "" THEN Raise(e, f)
         ELSE IF Exists(f, p) THEN Ok(f)
         ELSE Ok([f EXCEPT ![p] = NewFile(now)])

\* The mode of open() in check_hardware_acceleration.
OpenModeAppend == "a"

OpenMode == "w"

\* open(p, mode) for mode "w" (create, truncate) or "a" (create, keep).
BuiltinOpen(f, p, mode, now) ==
    LET e == OsOpenErrno(f, p, TRUE) IN
    IF e # "" THEN Raise(e, f)
    ELSE IF ~Exists(f, p) THEN Ok([f EXCEPT ![p] = NewFile(now)])
    ELSE IF mode = "w" THEN Ok([f EXCEPT ![p].data = <<>>, ![p].mtime = now])
    ELSE Ok(f)

\* f.write(text) followed by the close of the with block.
FileWrite(f, p, text, now) ==
    [f EXCEPT ![p].data = Append(@, text), ![p].mtime = now]

\* ------------------------------------------------- accelerator class
\* A probe that asks for MPS before CUDA.
SelectDeviceMpsFirst(c, m) ==
    IF m THEN "mps" ELSE IF c THEN "cuda" ELSE "cpu"

\* The if / elif / else of check_hardware_acceleration.
SelectDevice(c, m) ==
    IF c THEN "cuda" ELSE IF m THEN "mps" ELSE "cpu"

Tokens == {"cuda", "mps", "cpu"}


\* ------------------------------------------------------ control flow
\* The number of the current run: the time stamp of what it writes.
Now == Len(history) + 1

\* A loop that stops one entry short of the list.
LastIndexShort == Len(PROJECT_STRUCTURE) - 1

\* The last index of "for folder in PROJECT_STRUCTURE".
LastIndex == Len(PROJECT_STRUCTURE)

\* The body of the try block for one folder: mkdir, then touch.
TryBody(f, dir_path, now) ==
    LET m == PathMkdir(f, dir_path, TRUE, TRUE, now) IN
    IF m.err # "" THEN m
    ELSE PathTouch(m.fs, Append(dir_path, GitKeep), now)

\* An except block that goes on with the next folder.
ExceptHandlerContinue(f, i) ==
    [pc |-> "initialize_directories", exitStatus |-> -1, idx |-> i + 1, fs |-> f]

\* An except block that restores the tree the run started from.
ExceptHandlerRollback(f, i) ==
    [pc |-> "exited", exitStatus |-> 1, idx |-> i, fs |-> fs0]

\* The except block after its logger.error: sys.exit(1), which nothing
\* catches, so the process ends with status 1 and the tree as it is.
ExceptHandler(f, i) ==
    [pc |-> "exited", exitStatus |-> 1, idx |-> i, fs |-> f]

\* main with its two calls in the other order.
MainSequenceSwapped ==
    <<"check_hardware_acceleration", "initialize_directories">>

\* The statements of main, in order.
MainSequence ==
    <<"initialize_directories", "check_hardware_acceleration">>

\* The statement of main that follows the call of ph.
NextPhase(ph) ==
    LET k == CHOOSE n \in 1..Len(MainSequence) : MainSequence[n] = ph IN
    IF k < Len(MainSequence) THEN MainSequence[k + 1] ELSE "report"

\* ------------------------------------------------------ initial state
RECURSIVE SubsetsUpTo(_)
SubsetsUpTo(k) ==
    IF k = 0 THEN {{}}
    ELSE LET prev == SubsetsUpTo(k - 1) IN
         prev \cup { s \cup {p} : s \in prev, p \in Paths \ {Root} }

IsProperPrefix(q, p) == Len(q) < Len(p) /\ SubSeq(p, 1, Len(q)) = q

\* The values of PreValues that the program can tell apart at p.  Where a
\* directory is expected the program never reads or opens a file, so one
\* file stands for all; device_config.txt is only ever opened, so one
\* directory stands for all; an unlisted entry is never accessed at all.
PreValuesAt(p) ==
    IF p \in Markers THEN PreValues
    ELSE IF p \in ProjectDirs
        THEN { x \in PreValues : x.kind = "file" => (x.w /\ x.data # <<>>) }
    ELSE IF p = DeviceConfig
        THEN { x \in PreValues : x.kind = "dir" => x.w }
    ELSE { x \in PreValues : x.w /\ (x.kind = "file" => x.data # <<>>) }

\* An entry lies in a directory: every chosen ancestor of a chosen entry
\* is a directory.
Consistent(S, v) ==
    /\ \A p \in S : v[p] \in PreValuesAt(p)
    /\ \A p \in S : \A q \in S : IsProperPrefix(q, p) => v[q].kind = "dir"

\* The tree in which the entries of S are as v says, their ancestors are
\* writable directories and nothing else exists.
Tree(S, v, rootw) ==
    [p \in Paths |->
        IF p = Root THEN [kind |-> "dir", w |-> rootw, data |-> <<>>, mtime |-> 0]
        ELSE IF p \in S THEN v[p]
        ELSE IF \E q \in S : IsProperPrefix(p, q) THEN NewDir(0)
        ELSE Absent]

Init ==
    /\ \E S \in SubsetsUpTo(MaxPre) : \E v \in [S -> PreValues] :
       \E rootw \in BOOLEAN :
          /\ Consistent(S, v)
          /\ fs = Tree(S, v, rootw)
    /\ fs0 = fs
    /\ cuda \in BOOLEAN
    /\ mps \in BOOLEAN
    /\ pc = "start"
    /\ idx = 1
    /\ device = "none"
    /\ exitStatus = -1
    /\ log = <<>>
    /\ returned = {}
    /\ history = <<>>

\* ------------------------------------------------------------ actions
\* main up to its first call.
MainStart ==
    /\ pc = "start"
    /\ pc' = MainSequence[1]
    /\ idx' = 1
    /\ log' = Append(log, <<"INFO", "Starting", Root>>)
    /\ UNCHANGED <<fs, fs0, device, exitStatus, returned, history, cuda, mps>>

\* One iteration of the loop of initialize_directories.
InitializeFolder ==
    /\ pc = "initialize_directories"
    /\ idx <= LastIndex
    /\ LET dir_path == Join(Root, PROJECT_STRUCTURE[idx])
           r == TryBody(fs, dir_path, Now)
           h == ExceptHandler(r.fs, idx)
       IN IF r.err = ""
          THEN /\ fs' = r.fs
               /\ log' = Append(log, <<"INFO", "OK", dir_path>>)
               /\ idx' = idx + 1
               /\ UNCHANGED <<pc, exitStatus>>
          ELSE /\ log' = Append(log, <<"ERROR", "Failed", dir_path>>)
               /\ fs' = h.fs
               /\ pc' = h.pc
               /\ idx' = h.idx
               /\ exitStatus' = h.exitStatus
    /\ UNCHANGED <<fs0, device, returned, history, cuda, mps>>

\* The loop of initialize_directories is over: the function returns.
InitializeReturn ==
    /\ pc = "initialize_directories"
    /\ idx > LastIndex
    /\ pc' = NextPhase("initialize_directories")
    /\ returned' = returned \cup {"initialize_directories"}
    /\ UNCHANGED <<fs, fs0, idx, device, exitStatus, log, history, cuda, mps>>

\* check_hardware_acceleration: select the class, log it, write it to
\* config/device_config.txt and return it.  An OSError of open() is caught
\* nowhere: the process ends with a traceback and status 1.
CheckHardware ==
    /\ pc = "check_hardware_acceleration"
    /\ LET dev == SelectDevice(cuda, mps)
           line == IF dev = "cpu" THEN <<"WARNING", "cpu", Root>>
                   ELSE <<"INFO", dev, Root>>
           o == BuiltinOpen(fs, DeviceConfig, OpenMode, Now)
       IN /\ log' = Append(log, line)
          /\ IF o.err = ""
             THEN /\ fs' = FileWrite(o.fs, DeviceConfig, dev, Now)
                  /\ device' = dev
                  /\ pc' = NextPhase("check_hardware_acceleration")
                  /\ returned' = returned \cup {"check_hardware_acceleration"}
                  /\ UNCHANGED exitStatus
             ELSE /\ fs' = o.fs
                  /\ pc' = "exited"
                  /\ exitStatus' = 1
                  /\ UNCHANGED <<device, returned>>
    /\ UNCHANGED <<fs0, idx, history, cuda, mps>>

\* The last two log lines of main; the interpreter then exits with 0.
Report ==
    /\ pc = "report"
    /\ log' = Append(log, <<"INFO", "SUCCESS", Root>>)
    /\ pc' = "exited"
    /\ exitStatus' = 0
    /\ UNCHANGED <<fs, fs0, idx, device, returned, history, cuda, mps>>

\* The script is run again in the same working directory.
Rerun ==
    /\ pc = "exited"
    /\ Now < MaxRuns
    /\ history' = Append(history, [exitStatus |-> exitStatus, returned |-> returned])
    /\ fs0' = fs
    /\ pc' = "start"
    /\ idx' = 1
    /\ device' = "none"
    /\ exitStatus' = -1
    /\ log' = <<>>
    /\ returned' = {}
    /\ UNCHANGED <<fs, cuda, mps>>

Next ==
    \/ MainStart
    \/ InitializeFolder
    \/ InitializeReturn
    \/ CheckHardware
    \/ Report
    \/ Rerun

Spec == Init /\ [][Next]_vars


\* The steps of one run of the script.
RunStep ==
    MainStart \/ InitializeFolder \/ InitializeReturn \/ CheckHardware \/ Report

\* -------------------------------------------------------- properties
DirOf(i) == Join(Root, PROJECT_STRUCTURE[i])

MarkerOf(i) == Append(DirOf(i), GitKeep)

Entries == 1..Len(PROJECT_STRUCTURE)

InitReturned == "initialize_directories" \in returned

ProbeReturned == "check_hardware_acceleration" \in returned

\* The run ended in the except block of initialize_directories.
Aborted == pc = "exited" /\ Len(log) > 0 /\ log[Len(log)][1] = "ERROR"

\* The directories logged as created or verified, in order.
OkPaths ==
    LET oks == SelectSeq(log, LAMBDA e : e[2] = "OK") IN
    [n \in 1..Len(oks) |-> oks[n][3]]

\* C1: whenever initialize_directories has returned normally, each of the
\* 13 entries of PROJECT_STRUCTURE, and each intermediate parent, exists
\* under the root and is a directory.
C1_AllDirectoriesExist ==
    InitReturned =>
        /\ \A i \in Entries : IsDir(fs, DirOf(i))
        /\ \A i \in Entries : \A q \in Prefixes(DirOf(i)) : IsDir(fs, q)
        /\ Cardinality({DirOf(i) : i \in Entries}) = 13

\* Witness of C1: the initializer returned on a tree in which data did not
\* exist when the run started.
C1_Witness ==
    /\ InitReturned
    /\ ~Exists(fs0, <<"data">>)
    /\ IsDir(fs, <<"data", "raw", "images">>)

\* C2: when mkdir or touch fails for the folder the loop is at, the step
\* logs that path as an error and ends the process with status 1, leaving
\* every later entry of PROJECT_STRUCTURE and its marker as the run found
\* them; and a run that ended this way has not reached a success outcome.
C2_FailStep ==
    (/\ pc = "initialize_directories"
     /\ idx \in Entries
     /\ TryBody(fs, DirOf(idx), Now).err # "")
    => /\ pc' = "exited"
       /\ exitStatus' = 1
       /\ log' = Append(log, <<"ERROR", "Failed", DirOf(idx)>>)
       /\ idx' = idx
       /\ \A j \in Entries : j > idx =>
             /\ fs'[DirOf(j)] = fs0[DirOf(j)]
             /\ fs'[MarkerOf(j)] = fs0[MarkerOf(j)]

C2_AbortedRun ==
    Aborted =>
        /\ exitStatus = 1
        /\ ~InitReturned
        /\ ~ProbeReturned
        /\ device = "none"
        /\ \A n \in 1..Len(log) : log[n][2] # "SUCCESS"
        /\ log[Len(log)][3] = DirOf(idx)
        /\ \A j \in Entries : j > idx =>
             /\ fs[DirOf(j)] = fs0[DirOf(j)]
             /\ fs[MarkerOf(j)] = fs0[MarkerOf(j)]

C2_AbortOnFailure == [](C2_AbortedRun) /\ [][C2_FailStep]_vars

\* Witness of C2: the run failed at src/encoders, the fifth entry, after
\* four entries had been logged as done.
C2_Witness ==
    /\ Aborted
    /\ log[Len(log)][3] = <<"src", "encoders">>
    /\ Len(OkPaths) = 4
    /\ exitStatus = 1

\* The previous run's initialize_directories returned normally.
PreviousInitialized ==
    /\ Len(history) > 0
    /\ "initialize_directories" \in history[Len(history)].returned

\* C3: in a run that follows one whose initialize_directories succeeded,
\* initialize_directories raises no error, and while and after it runs
\* every path is of the kind and has the content the run found; only
\* modification times of marker files differ.
C3_Idempotent ==
    PreviousInitialized =>
        /\ ~Aborted
        /\ pc \in {"initialize_directories", "check_hardware_acceleration"} =>
              \A p \in Paths :
                 /\ fs[p].kind = fs0[p].kind
                 /\ fs[p].data = fs0[p].data
                 /\ fs[p].w = fs0[p].w
                 /\ fs[p].mtime # fs0[p].mtime => p \in Markers

\* Witness of C3: the second run's initializer has returned and has
\* refreshed the time of a marker file.
C3_Witness ==
    /\ PreviousInitialized
    /\ InitReturned
    /\ pc = "check_hardware_acceleration"
    /\ fs0[MarkerOf(1)].mtime = 1
    /\ fs[MarkerOf(1)].mtime = 2

\* C4: once check_hardware_acceleration has returned, the value returned
\* is cuda whenever CUDA is available, mps only when CUDA is unavailable
\* and MPS is available, cpu only when both are unavailable; and that
\* value is what was written to config/device_config.txt.
C4_PriorityOrder ==
    ProbeReturned =>
        /\ cuda => device = "cuda"
        /\ (~cuda /\ mps) => device = "mps"
        /\ (~cuda /\ ~mps) => device = "cpu"
        /\ fs[DeviceConfig].kind = "file"
        /\ Len(fs[DeviceConfig].data) > 0
        /\ fs[DeviceConfig].data[Len(fs[DeviceConfig].data)] = device

\* Witness of C4: both capabilities are available and cuda was returned.
C4_Witness ==
    /\ ProbeReturned
    /\ cuda
    /\ mps
    /\ device = "cuda"

\* C5: after a run of main that completes, config/device_config.txt
\* holds exactly one of the three tokens and nothing else, whatever it
\* held before the run.
C5_SingleToken ==
    (pc = "exited" /\ exitStatus = 0) =>
        /\ fs[DeviceConfig].kind = "file"
        /\ fs[DeviceConfig].data \in { <<t>> : t \in Tokens }

\* Witness of C5: a run completed on a tree whose device_config.txt held
\* something before the run.
C5_Witness ==
    /\ pc = "exited"
    /\ exitStatus = 0
    /\ fs0[DeviceConfig].kind = "file"
    /\ fs0[DeviceConfig].data # <<>>

\* C6 as stated: after initialize_directories returns normally, every
\* listed directory holds a marker file .gitkeep and that file is empty,
\* whatever the initial filesystem was.
C6_MarkersEmpty ==
    InitReturned =>
        \A i \in Entries :
            /\ fs[MarkerOf(i)].kind = "file"
            /\ fs[MarkerOf(i)].data = <<>>

\* C6 amended: after initialize_directories returns normally, every
\* listed directory holds an entry .gitkeep; one that did not exist when
\* the run started is an empty file, and one that did exist is of the kind
\* and has the content it had.
C6_MarkersPresent ==
    InitReturned =>
        \A i \in Entries :
            /\ Exists(fs, MarkerOf(i))
            /\ ~Exists(fs0, MarkerOf(i)) =>
                  (fs[MarkerOf(i)].kind = "file" /\ fs[MarkerOf(i)].data = <<>>)
            /\ Exists(fs0, MarkerOf(i)) =>
                  /\ fs[MarkerOf(i)].kind = fs0[MarkerOf(i)].kind
                  /\ fs[MarkerOf(i)].data = fs0[MarkerOf(i)].data

\* Witness of C6: the initializer returned on a tree in which a listed
\* directory held a non-empty .gitkeep before the first run.
C6_Witness ==
    /\ InitReturned
    /\ history = <<>>
    /\ \E i \in Entries : fs0[MarkerOf(i)].data # <<>>

\* C7 as stated: once directory initialization has succeeded the probe
\* returns a class and the process ends with status 0; a run ends with a
\* non-zero status only through a directory-creation failure.
C7_ProbeNeverFails ==
    pc = "exited" =>
        /\ InitReturned => (exitStatus = 0 /\ ProbeReturned /\ device \in Tokens)
        /\ exitStatus # 0 => Aborted

\* The run started in an empty working directory.
StartedEmpty == \A p \in Paths \ {Root} : ~Exists(fs0, p)

\* The final state of the scenario: status 0, the thirteen directories,
\* a marker file in each, and the token cpu in device_config.txt.
ScenarioOutcome ==
    /\ pc = "exited"
    /\ exitStatus = 0
    /\ \A i \in Entries : IsDir(fs, DirOf(i)) /\ fs[MarkerOf(i)].kind = "file"
    /\ fs[DeviceConfig].kind = "file"
    /\ fs[DeviceConfig].data = <<"cpu">>

\* C8 as stated: a run of main started in an empty working directory with
\* neither CUDA nor MPS available ends with status 0, the thirteen
\* directories, their markers and the token cpu.
C8_EmptyDirScenario ==
    (pc = "exited" /\ StartedEmpty /\ ~cuda /\ ~mps) => ScenarioOutcome

\* C8 amended: a run of main started in an empty working directory in
\* which the process may create entries, with neither CUDA nor MPS
\* available, has a next step until the process has exited, takes at most
\* one step per log line and one per function return, and has exited in
\* that final state.
C8_EmptyWritableDirScenario ==
    (StartedEmpty /\ fs0[Root].w /\ ~cuda /\ ~mps) =>
        /\ pc = "exited" => ScenarioOutcome
        /\ pc # "exited" => ENABLED RunStep
        /\ Len(log) <= Len(PROJECT_STRUCTURE) + 3

\* Witness of C8: the final state of such a run.
C8_Witness ==
    /\ ScenarioOutcome
    /\ StartedEmpty
    /\ fs0[Root].w
    /\ ~cuda
    /\ ~mps
    /\ history = <<>>

\* C9: probing starts only after all 13 directories have been processed
\* successfully; device_config.txt changes only in the probing step, with
\* the config directory in place; and in a run that directory
\* initialization aborted the probe has not run and device_config.txt is
\* as the run found it.
C9_ProbeState ==
    /\ (pc = "check_hardware_acceleration" \/ ProbeReturned) =>
          /\ InitReturned
          /\ OkPaths = PROJECT_STRUCTURE
    /\ Aborted =>
          /\ ~ProbeReturned
          /\ fs[DeviceConfig] = fs0[DeviceConfig]

C9_ProbeStep ==
    fs'[DeviceConfig] # fs[DeviceConfig] =>
        /\ pc = "check_hardware_acceleration"
        /\ InitReturned
        /\ IsDir(fs, <<"config">>)

C9_FoldersThenHardware == [](C9_ProbeState) /\ [][C9_ProbeStep]_vars

\* Witness of C9: the probe wrote device_config.txt into a config
\* directory that this run created.
C9_Witness ==
    /\ ProbeReturned
    /\ ~Exists(fs0, <<"config">>)
    /\ IsDir(fs, <<"config">>)
    /\ fs[DeviceConfig].kind = "file"

\* C10: a step of initialize_directories removes nothing: what existed
\* before it exists after it, of the same kind and content; whatever it
\* creates is a listed directory, a parent of one, or a marker file; and
\* when it aborts at the k-th entry the directories and markers of
\* entries 1..k-1 are in place.
C10_Step ==
    pc = "initialize_directories" =>
        /\ \A p \in Paths : Exists(fs, p) =>
              /\ fs'[p].kind = fs[p].kind
              /\ fs'[p].data = fs[p].data
        /\ \A p \in Paths : (~Exists(fs, p) /\ Exists(fs', p)) =>
              \/ p \in ProjectDirs /\ fs'[p].kind = "dir"
              \/ p \in Markers /\ fs'[p].kind = "file"
        /\ pc' = "exited" =>
              \A j \in Entries : j < idx =>
                 IsDir(fs', DirOf(j)) /\ Exists(fs', MarkerOf(j))

C10_NoRemovalNoRollback == [][C10_Step]_vars

\* Witness of C10: the run aborted at a later entry and the directory and
\* marker it had created for the first entry are in place.
C10_Witness ==
    /\ Aborted
    /\ idx > 1
    /\ ~Exists(fs0, DirOf(1))
    /\ IsDir(fs, DirOf(1))
    /\ fs[MarkerOf(1)].kind = "file"

====
